---- MODULE Spec2Model ----
(***************************************************************************)
(* Model of the JAMS dataset converters of marl/jams-data (src/parsers).   *)
(* Every converter is a batch job over a list of input tracks; one         *)
(* specification per converter family:                                     *)
(*   SpecCal      parse_cal500 and parse_cal10k                            *)
(*   SpecMidi     midi_parser's process_folder                             *)
(*   SpecRwc      rwcpopmelody_parser's process_folder and create_jams     *)
(*   SpecSegments salami_parser's get_level_segments                       *)
(*   SpecSalami   salami_parser's process over Parallel workers            *)
(*   SpecHeman    heman_parser's process and parse_song                     *)
(*   SpecAnnotations  salami_parser's create_JAMS loop over textfile1..3    *)
(* Texts (paths, file names, labels) are sequences of one-character        *)
(* strings, so that the string operations of the code are computed.       *)
(***************************************************************************)
EXTENDS Integers, Sequences, FiniteSets, TLC

VARIABLES
    converter,   \* which script runs: "cal500", "cal10k", "midi", "rwc", "salami",
                 \* "heman"; "create_JAMS" for one call of salami's create_JAMS
    i,           \* 1-based position of the script's for loop over its inputs
    status,      \* "running", "done" (loop ended), "raised" (uncaught exception)
    dirs,        \* directories that exist
    files,       \* files written: path -> content
    stdout,      \* printed and logged lines, in order
    \* CAL500 / CAL10K
    compress,    \* the -z flag
    songs,       \* rows of songNames.txt / songList.tab, in file order
    \* MIDI
    midi_dir,    \* names of the files of the input folder
    midi_files,  \* the list collected by process_folder
    \* RWC-POP
    smf_files,   \* the .MID files found by process_folder
    pc,          \* position in create_jams: "read", "select", "convert", "cleanup"
    m,           \* the MIDI pattern read from the current smf file
    index,       \* 0-based index of the melody track, -1 while there is none
    melody,      \* the tracks kept for the reduced pattern
    ret,         \* what the last create_jams call returned: "None", 0, or
                 \* "pending" while it runs
    \* SALAMI
    csv_rows,    \* rows of metadata.csv, the header row first
    ann_dirs,    \* in_dir/annotations: SONG_ID -> its three textfiles
    n_jobs,      \* the -j option
    next_row,    \* the next row Parallel hands to a worker
    running,     \* worker -> the row it works on, 0 when idle
    aborting,    \* Parallel stopped dispatching after a task raised
    outcome,     \* row -> "pending", "running", "returned", "raised", "killed"
    \* SALAMI get_level_segments on its own
    df,          \* the rows of an annotation file: time, labels
    level,       \* "function", "upper", "lower" or "instrument"
    segments,    \* the list returned, << >> before the call
    \* HEMAN
    heman_dir,   \* the input folder: file name -> the song pickled in it
    song_files,  \* the list glob.glob returned
    \* SALAMI create_JAMS on its own
    loop_id,     \* annotation_id, the loop variable of create_JAMS; 4 after the loop
    jam_annotations \* jam.annotations, the annotations collected so far

common_vars == <<converter, i, status>>
fs_vars == <<dirs, files, stdout>>
cal_vars == <<compress, songs>>
midi_vars == <<midi_dir, midi_files>>
rwc_vars == <<smf_files, pc, m, index, melody, ret>>
salami_vars == <<csv_rows, ann_dirs, n_jobs, next_row, running, aborting, outcome>>
seg_vars == <<df, level, segments>>
heman_vars == <<heman_dir, song_files>>
ann_vars == <<loop_id, jam_annotations>>
vars == <<common_vars, fs_vars, cal_vars, midi_vars, rwc_vars, salami_vars, seg_vars,
          heman_vars, ann_vars>>

\* the variables of the other converters, which a converter never touches
not_cal ==
    <<midi_vars, rwc_vars, salami_vars, seg_vars, heman_vars, ann_vars>>
not_midi ==
    <<cal_vars, rwc_vars, salami_vars, seg_vars, heman_vars, ann_vars>>
not_rwc ==
    <<cal_vars, midi_vars, salami_vars, seg_vars, heman_vars, ann_vars>>
not_salami ==
    <<cal_vars, midi_vars, rwc_vars, seg_vars, heman_vars, ann_vars>>
not_seg ==
    <<cal_vars, midi_vars, rwc_vars, salami_vars, heman_vars, ann_vars>>
not_heman ==
    <<cal_vars, midi_vars, rwc_vars, salami_vars, seg_vars, ann_vars>>
not_salami_ann ==
    <<cal_vars, midi_vars, rwc_vars, seg_vars, heman_vars>>

\* the initial value of the variables of the converters that do not run
IdleCal == compress = FALSE /\ songs = << >>
IdleMidi == midi_dir = {} /\ midi_files = << >>
IdleRwc ==
    /\ smf_files = << >> /\ pc = "read" /\ m = << >>
    /\ index = -1 /\ melody = << >> /\ ret = "None"
IdleSalami ==
    /\ csv_rows = << >> /\ ann_dirs = << >> /\ n_jobs = 1 /\ next_row = 1
    /\ running = << >> /\ aborting = FALSE /\ outcome = << >>
IdleSeg == df = << >> /\ level = "function" /\ segments = << >>
IdleHeman == heman_dir = << >> /\ song_files = << >>
IdleAnn == loop_id = 1 /\ jam_annotations = << >>

---------------------------------------------------------------------------
(* Bounds of the model *)
MaxSongs == 3
MaxTracks == 3
MaxDfRows == 2
MaxRows == 2
MaxJobs == 2
MaxPkl == 2

---------------------------------------------------------------------------
(* Texts *)

Digit(n) ==
    CASE n = 0 -> "0" [] n = 1 -> "1" [] n = 2 -> "2" [] n = 3 -> "3"
      [] n = 4 -> "4" [] n = 5 -> "5" [] n = 6 -> "6" [] n = 7 -> "7"
      [] n = 8 -> "8" [] n = 9 -> "9"

\* str(n) of a non-negative integer: its decimal digits
RECURSIVE str(_)
str(n) == IF n < 10 THEN <<Digit(n)>> ELSE str(n \div 10) \o <<Digit(n % 10)>>

\* os.extsep.join([a, b])
extsep_join(a, b) == a \o <<".">> \o b

\* os.path.join(a, b) for a relative b
path_join(a, b) ==
    IF a = <<>> THEN b
    ELSE IF a[Len(a)] = "/" THEN a \o b
    ELSE a \o <<"/">> \o b

\* position of the first occurrence of character c in s, 0 when absent
RECURSIVE find_char(_, _, _)
find_char(s, c, k) ==
    IF k > Len(s) THEN 0
    ELSE IF s[k] = c THEN k
    ELSE find_char(s, c, k + 1)

\* s.split(c, 1): one or two pieces
split_once(s, c) ==
    LET k == find_char(s, c, 1)
    IN  IF k = 0 THEN <<s>>
        ELSE <<SubSeq(s, 1, k - 1), SubSeq(s, k + 1, Len(s))>>

\* the characters of the model's texts, in code point order
Chars ==
    <<" ", "'", "(", ")", ",", "-", ".", "/",
      "0", "1", "2", "3", "4", "5", "6", "7", "8", "9",
      "A", "B", "C", "D", "E", "F", "G", "H", "I", "J", "K", "L", "M",
      "N", "O", "P", "Q", "R", "S", "T", "U", "V", "W", "X", "Y", "Z", "_",
      "a", "b", "c", "d", "e", "f", "g", "h", "i", "j", "k", "l", "m",
      "n", "o", "p", "q", "r", "s", "t", "u", "v", "w", "x", "y", "z">>

Ord(c) == CHOOSE k \in DOMAIN Chars : Chars[k] = c

\* a < b as Python compares strings
RECURSIVE str_less(_, _)
str_less(a, b) ==
    IF Len(b) = 0 THEN FALSE
    ELSE IF Len(a) = 0 THEN TRUE
    ELSE IF a[1] # b[1] THEN Ord(a[1]) < Ord(b[1])
    ELSE str_less(Tail(a), Tail(b))

\* sorted(S) for a set of texts
RECURSIVE sorted(_)
sorted(S) ==
    IF S = {} THEN << >>
    ELSE LET least == CHOOSE a \in S : \A b \in S \ {a} : str_less(a, b)
         IN  <<least>> \o sorted(S \ {least})

\* position of the last occurrence of character c in s, 0 when absent
RECURSIVE rfind_char(_, _, _)
rfind_char(s, c, k) ==
    IF k = 0 THEN 0
    ELSE IF s[k] = c THEN k
    ELSE rfind_char(s, c, k - 1)

\* os.path.basename
basename(p) == SubSeq(p, rfind_char(p, "/", Len(p)) + 1, Len(p))

\* os.path.split(p)[0]
dirname(p) ==
    LET k == rfind_char(p, "/", Len(p))
    IN  IF k <= 1 THEN SubSeq(p, 1, k) ELSE SubSeq(p, 1, k - 1)

\* s[:-n] for n > 0
drop_last(s, n) == SubSeq(s, 1, Len(s) - n)

starts_with(s, t) == Len(s) >= Len(t) /\ SubSeq(s, 1, Len(t)) = t

\* s.replace(old, new) for a non-empty old
RECURSIVE replace(_, _, _)
replace(s, old, new) ==
    IF Len(s) = 0 THEN s
    ELSE IF starts_with(s, old)
         THEN new \o replace(SubSeq(s, Len(old) + 1, Len(s)), old, new)
    ELSE <<s[1]>> \o replace(Tail(s), old, new)

UpperCase ==
    <<"A", "B", "C", "D", "E", "F", "G", "H", "I", "J", "K", "L", "M",
      "N", "O", "P", "Q", "R", "S", "T", "U", "V", "W", "X", "Y", "Z">>
LowerCase ==
    <<"a", "b", "c", "d", "e", "f", "g", "h", "i", "j", "k", "l", "m",
      "n", "o", "p", "q", "r", "s", "t", "u", "v", "w", "x", "y", "z">>

\* each capital letter's small letter
lower_table ==
    [c \in {UpperCase[k] : k \in DOMAIN UpperCase} |->
        LowerCase[CHOOSE k \in DOMAIN UpperCase : UpperCase[k] = c]]

lower_char(c) == IF c \in DOMAIN lower_table THEN lower_table[c] ELSE c

\* s.lower()
lower(s) == [k \in DOMAIN s |-> lower_char(s[k])]

is_space(c) == c = " "

\* "".join(s.split()): s without its whitespace
RECURSIVE join_split(_)
join_split(s) ==
    IF Len(s) = 0 THEN s
    ELSE IF is_space(s[1]) THEN join_split(Tail(s))
    ELSE <<s[1]>> \o join_split(Tail(s))

\* s.strip()
RECURSIVE lstrip(_)
lstrip(s) == IF Len(s) > 0 /\ is_space(s[1]) THEN lstrip(Tail(s)) ELSE s
RECURSIVE rstrip(_)
rstrip(s) ==
    IF Len(s) > 0 /\ is_space(s[Len(s)]) THEN rstrip(drop_last(s, 1)) ELSE s
strip(s) == lstrip(rstrip(s))

\* s[:n]
prefix(s, n) == SubSeq(s, 1, IF Len(s) < n THEN Len(s) ELSE n)

digit_val(c) ==
    CASE c = "0" -> 0 [] c = "1" -> 1 [] c = "2" -> 2 [] c = "3" -> 3
      [] c = "4" -> 4 [] c = "5" -> 5 [] c = "6" -> 6 [] c = "7" -> 7
      [] c = "8" -> 8 [] c = "9" -> 9 [] OTHER -> -1

\* int(s) of a text of decimal digits
RECURSIVE int(_)
int(s) ==
    IF Len(s) = 0 THEN 0
    ELSE 10 * int(drop_last(s, 1)) + digit_val(s[Len(s)])

ends_with(s, t) ==
    Len(s) >= Len(t) /\ SubSeq(s, Len(s) - Len(t) + 1, Len(s)) = t

\* s.split(c): the pieces between the occurrences of c
RECURSIVE split(_, _)
split(s, c) ==
    LET k == find_char(s, c, 1)
    IN  IF k = 0 THEN <<s>>
        ELSE <<SubSeq(s, 1, k - 1)>> \o split(SubSeq(s, k + 1, Len(s)), c)

---------------------------------------------------------------------------
(* CAL500 and CAL10K *)

output_dir == <<"o">>
input_dir == <<"i">>
jams_ext == <<"j", "a", "m", "s">>
jamz_ext == <<"j", "a", "m", "z">>

\* CAL500 track names have the form artist-title (songNames.txt)
TrackNames == { <<"a", "-", "b">>, <<"a", "-", "c">>, <<"b", "-", "c", "-", "d">> }
\* CAL10K song ids (index column of songList.tab)
SongIds == {1, 2, 12}
Durations == {3, 5}

\* a row: for cal500 id is the row label of the RangeIndex and track its name;
\* for cal10k id is the index column and track the audio file name.
\* audio: whether the audio file can be opened; dur: its duration
AudioNames == { <<"x">> }

\* get_track_duration: audioread.audio_open raises IOError on a missing file
get_track_duration(song) ==
    IF song.audio THEN [exc |-> "none", value |-> song.dur]
    ELSE [exc |-> "IOError", value |-> 0]

\* save_jam keeping only the last digit of the id
cal_outfile_lastdigit(id_num, zip) ==
    path_join(output_dir,
              IF zip THEN extsep_join(str(id_num % 10), jamz_ext)
              ELSE extsep_join(str(id_num % 10), jams_ext))

\* the file system and output after save_jam(output_dir, jam, id_num, compress)
cal_outfile(id_num, zip) ==
    path_join(output_dir,
              IF zip THEN extsep_join(str(id_num), jamz_ext)
              ELSE extsep_join(str(id_num), jams_ext))

save_jam(fs, jam, id_num, zip) ==
    LET outfile == cal_outfile(id_num, zip)
    IN  [dirs |-> fs.dirs \cup {output_dir},
         files |-> (outfile :> jam) @@ fs.files,
         stdout |-> Append(fs.stdout, [msg |-> "Saving", arg |-> outfile])]

\* vocab.txt: the tag names, the columns of the tag matrix
Vocab == << <<"t", "1">>, <<"t", "2">>, <<"t", "3">> >>

\* a row of hardAnnotations.txt with the same row of softAnnotations.txt
\* (the soft values counted in thirds)
TagRows ==
    { [hard |-> <<1, 0, 1>>, soft |-> <<2, 3, 0>>],
      [hard |-> <<0, 1, 1>>, soft |-> <<0, 1, 3>>],
      [hard |-> <<0, 0, 0>>, soft |-> <<1, 0, 2>>] }

\* load_tags taking the hard annotations for the tag matrix
load_tags_hard(rows) ==
    [k \in DOMAIN rows |-> [j \in DOMAIN Vocab |-> rows[k].hard[j]]]

\* load_tags (lines 26-39): hard_csv * soft_csv, a row per song in the order
\* of songNames.txt, a column per tag of vocab.txt
load_tags(rows) ==
    [k \in DOMAIN rows |-> [j \in DOMAIN Vocab |-> rows[k].hard[j] * rows[k].soft[j]]]

\* tag_matrix.loc[song_id]: the row labelled with the track name
loc(tag_matrix, rows, song_id) ==
    tag_matrix[CHOOSE k \in DOMAIN rows : rows[k].track = song_id]

\* Series.nonzero()[0]: the positions of the non-zero values, increasing
RECURSIVE nonzero(_, _)
nonzero(row, j) ==
    IF j > Len(row) THEN << >>
    ELSE (IF row[j] # 0 THEN <<j>> ELSE << >>) \o nonzero(row, j + 1)

\* line 111: the (tag, value) items of the row at its non-zero positions
track_tags(tag_matrix, rows, song_id) ==
    LET row == loc(tag_matrix, rows, song_id)
        pos == nonzero(row, 1)
    IN  [n \in DOMAIN pos |-> [tag |-> Vocab[pos[n]], value |-> row[pos[n]]]]

\* lines 81-85: one observation per item of tags
tag_observations(tags, duration) ==
    [n \in DOMAIN tags |-> [time |-> 0, duration |-> duration,
                            value |-> tags[n].tag, confidence |-> tags[n].value]]

\* cal500 process_track: the result is the exception raised (or "none") and
\* the file system left behind
cal500_process_track(fs, metadata, tags, zip) ==
    LET d == get_track_duration(metadata)
        parts == split_once(metadata.track, "-")
    IN  IF d.exc # "none" THEN [exc |-> d.exc, fs |-> fs]
        ELSE IF Len(parts) # 2 THEN [exc |-> "ValueError", fs |-> fs]
        ELSE [exc |-> "none",
              fs |-> save_jam(fs,
                              [title |-> parts[2], artist |-> parts[1],
                               duration |-> d.value,
                               namespace |-> "tag_cal500",
                               data |-> tag_observations(tags, d.value),
                               content_path |-> metadata.track],
                              metadata.id, zip)]

\* cal10k process_track
cal10k_process_track(fs, metadata, zip) ==
    LET d == get_track_duration(metadata)
    IN  IF d.exc # "none" THEN [exc |-> d.exc, fs |-> fs]
        ELSE [exc |-> "none",
              fs |-> save_jam(fs,
                              [title |-> <<"t">>, artist |-> <<"r">>,
                               duration |-> d.value,
                               namespace |-> "tag_cal10k",
                               content_path |-> metadata.track],
                              metadata.id, zip)]

FS == [dirs |-> dirs, files |-> files, stdout |-> stdout]

SetFS(fs) ==
    /\ dirs' = fs.dirs
    /\ files' = fs.files
    /\ stdout' = fs.stdout

\* the for loop moves on, or ends after the last row
LoopNext ==
    /\ i' = i + 1
    /\ status' = IF i + 1 > Len(songs) THEN "done" ELSE "running"

\* parse_cal500 with the try/except left out: IOError ends the run
parse_cal500_iter_notry ==
    LET r == cal500_process_track(FS, songs[i],
                                  track_tags(load_tags(songs), songs, songs[i].track),
                                  compress)
    IN  IF r.exc = "none"
        THEN /\ SetFS(r.fs)
             /\ LoopNext
        ELSE /\ SetFS(r.fs)
             /\ i' = i
             /\ status' = "raised"

\* one iteration of the loop of parse_cal500, with its try/except IOError
parse_cal500_iter ==
    LET r == cal500_process_track(FS, songs[i],
                                  track_tags(load_tags(songs), songs, songs[i].track),
                                  compress)
    IN  CASE r.exc = "none" ->
                /\ SetFS(r.fs)
                /\ LoopNext
          [] r.exc = "IOError" ->
                /\ SetFS([r.fs EXCEPT !.stdout =
                            Append(@, [msg |-> "Could not process file",
                                       arg |-> songs[i].track])])
                /\ LoopNext
          [] OTHER ->
                /\ SetFS(r.fs)
                /\ i' = i
                /\ status' = "raised"

Cal500Track ==
    /\ converter = "cal500"
    /\ status = "running"
    /\ parse_cal500_iter
    /\ UNCHANGED <<converter, cal_vars, not_cal>>

\* one iteration of the loop of parse_cal10k: no exception is caught
parse_cal10k_iter ==
    LET r == cal10k_process_track(FS, songs[i], compress)
    IN  IF r.exc = "none"
        THEN /\ SetFS(r.fs)
             /\ LoopNext
        ELSE /\ SetFS(r.fs)
             /\ i' = i
             /\ status' = "raised"

Cal10kTrack ==
    /\ converter = "cal10k"
    /\ status = "running"
    /\ parse_cal10k_iter
    /\ UNCHANGED <<converter, cal_vars, not_cal>>

Distinct(f) == \A a, b \in DOMAIN f : a # b => f[a] # f[b]

\* songNames.txt read with the default RangeIndex 0..n-1, each row with its
\* rows of hardAnnotations.txt and softAnnotations.txt; the names are distinct
Cal500Songs ==
    UNION { { [k \in 1..n |-> [id |-> k - 1, track |-> t[k],
                               audio |-> a[k], dur |-> d[k],
                               hard |-> g[k].hard, soft |-> g[k].soft]] :
              t \in {f \in [1..n -> TrackNames] : Distinct(f)},
              a \in [1..n -> BOOLEAN], d \in [1..n -> Durations],
              g \in [1..n -> TagRows] } :
            n \in 0..MaxSongs }

\* songList.tab read with its first column as the index
Cal10kSongs ==
    UNION { [1..n -> [id : SongIds, track : AudioNames,
                      audio : BOOLEAN, dur : Durations]] :
            n \in 0..MaxSongs }

InitCal ==
    /\ converter \in {"cal500", "cal10k"}
    /\ compress \in BOOLEAN
    /\ songs \in (IF converter = "cal500" THEN Cal500Songs ELSE Cal10kSongs)
    /\ i = 1
    /\ status = IF Len(songs) = 0 THEN "done" ELSE "running"
    /\ dirs \in {{}, {output_dir}}
    /\ files = << >>
    /\ stdout = << >>
    /\ IdleMidi /\ IdleRwc /\ IdleSalami /\ IdleSeg /\ IdleHeman
    /\ IdleAnn

NextCal == Cal500Track \/ Cal10kTrack

SpecCal == InitCal /\ [][NextCal]_vars

---------------------------------------------------------------------------
(* Properties of the CAL converters *)

\* rows whose iteration has ended (the row that raised is not among them)
Processed == 1..(i - 1)
\* rows of songs whose audio file can be opened / cannot
Openable(rows) == {k \in rows : songs[k].audio}
Missing(rows) == {k \in rows : ~songs[k].audio}
SkipLine(k) == [msg |-> "Could not process file", arg |-> songs[k].track]
Printed(line) == \E n \in DOMAIN stdout : stdout[n] = line

\* C1: parse_cal500 skips a track whose processing raises IOError with a
\* message and without writing a file for it, and goes on with the remaining
\* tracks: the run never ends on the exception, and at every point the files
\* written are exactly those of the rows handled so far that raised no IOError
C1_Cal500SkipAndContinue ==
    converter = "cal500" =>
        /\ status # "raised"
        /\ status = "done" => i = Len(songs) + 1
        /\ \A k \in Missing(Processed) :
              /\ Printed(SkipLine(k))
              /\ \A p \in DOMAIN files : files[p].content_path # songs[k].track
        /\ {files[p].content_path : p \in DOMAIN files}
              = {songs[k].track : k \in Openable(Processed)}
        /\ Cardinality(DOMAIN files) = Cardinality(Openable(Processed))

\* a finished cal500 run in which a track was skipped and a later one saved
C1_Witness ==
    /\ converter = "cal500"
    /\ status = "done"
    /\ \E k, n \in DOMAIN songs :
          /\ k < n
          /\ ~songs[k].audio
          /\ songs[n].audio
          /\ Printed(SkipLine(k))
          /\ \E p \in DOMAIN files : files[p].content_path = songs[n].track

\* C2: parse_cal10k skips a track whose audio file cannot be opened and still
\* converts all remaining tracks of songList.tab
C2_Cal10kSkipAndContinue ==
    converter = "cal10k" =>
        /\ status # "raised"
        /\ status = "done" =>
              \A k \in Openable(DOMAIN songs) :
                 cal_outfile(songs[k].id, compress) \in DOMAIN files

IsDigits(s) == Len(s) > 0 /\ \A n \in DOMAIN s : digit_val(s[n]) >= 0

\* p reads <output_dir>/<decimal id>.<ext>
IsOutPath(p, id_num, ext) ==
    LET n == Len(output_dir)
        stem == SubSeq(p, n + 2, Len(p) - Len(ext) - 1)
    IN  /\ Len(p) > n + Len(ext) + 2
        /\ SubSeq(p, 1, n) = output_dir
        /\ p[n + 1] = "/"
        /\ IsDigits(stem)
        /\ int(stem) = id_num
        /\ p[Len(p) - Len(ext)] = "."
        /\ SubSeq(p, Len(p) - Len(ext) + 1, Len(p)) = ext

Saved == Openable(Processed)

\* C8: save_jam writes <output_dir>/<id>.jamz when compress is set and
\* <output_dir>/<id>.jams otherwise, the output directory exists after the
\* call, and tracks with distinct ids never share an output path
C8_SaveJamPath ==
    /\ \A k \in Saved :
          \E p \in DOMAIN files :
             /\ IsOutPath(p, songs[k].id, IF compress THEN jamz_ext ELSE jams_ext)
             /\ Printed([msg |-> "Saving", arg |-> p])
    /\ \A p \in DOMAIN files :
          \E k \in Saved :
             IsOutPath(p, songs[k].id, IF compress THEN jamz_ext ELSE jams_ext)
    /\ Saved # {} => output_dir \in dirs
    /\ (\A k, n \in Saved : k # n => songs[k].id # songs[n].id)
          => Cardinality(DOMAIN files) = Cardinality(Saved)

\* a run that saved two tracks, with ids 2 and 12, compressed, the first
\* line printed being that of save_jam
C8_Witness ==
    /\ compress
    /\ \E k, n \in Saved : songs[k].id = 2 /\ songs[n].id = 12
    /\ Cardinality(DOMAIN files) = 2
    /\ output_dir \in dirs
    /\ stdout[1].msg = "Saving"

---------------------------------------------------------------------------
(* MIDI: midi_parser.process_folder *)

midi_in == <<"m">>
midi_out == <<"o">>
ext_mid == <<".", "m", "i", "d">>
ext_MID == <<".", "M", "I", "D">>

\* the file names the input folder may hold
MidiNames ==
    { <<"a", ".", "m", "i", "d">>, <<"a", ".", "M", "I", "D">>,
      <<"b", ".", "m", "i", "d">>, <<"a", "b", ".", "M", "I", "D">>,
      <<"a", ".", "M", "i", "d">>, <<"a", ".", "t", "x", "t">> }

\* glob's "*<ext>": the name ends with ext (case matters) and is not hidden
glob_match(name, ext) == ends_with(name, ext) /\ name[1] # "."

\* jams.util.find_with_extension(in_dir, ext, depth=1): the sorted paths
\* in_dir/*<ext>
find_with_extension(in_dir, listing, ext) ==
    sorted({path_join(in_dir, name) : name \in {x \in listing : glob_match(x, ext)}})

\* the output path of process_folder for input mf
midi_jams_file(mf) ==
    path_join(midi_out, drop_last(basename(mf), 3) \o jams_ext)

\* jams.util.smkdirs
smkdirs(fs, d) == [fs EXCEPT !.dirs = @ \cup {d}]

\* midi_parser.create_jams: the saved jam is titled after the input
midi_create_jams(fs, midi_file, out_file) ==
    [fs EXCEPT !.files =
        (out_file :> [title |-> drop_last(basename(midi_file), 4),
                      namespace |-> "pitch_midi",
                      source |-> midi_file]) @@ @]

\* lines 92-94: collect the inputs
MidiCollect ==
    /\ converter = "midi"
    /\ status = "collect"
    /\ midi_files' = find_with_extension(midi_in, midi_dir, ext_mid)
                       \o find_with_extension(midi_in, midi_dir, ext_MID)
    /\ stdout' = Append(stdout, [msg |-> "print", arg |-> Len(midi_files')])
    /\ i' = 1
    /\ status' = IF Len(midi_files') = 0 THEN "done" ELSE "running"
    /\ UNCHANGED <<converter, dirs, files, midi_dir, not_midi>>

\* lines 96-103: one iteration of the loop over midi_files
MidiTrack ==
    /\ converter = "midi"
    /\ status = "running"
    /\ LET mf == midi_files[i]
           jams_file == midi_jams_file(mf)
           fs == [FS EXCEPT !.stdout = Append(@, [msg |-> "print", arg |-> mf])]
       IN  SetFS(midi_create_jams(smkdirs(fs, dirname(jams_file)), mf, jams_file))
    /\ i' = i + 1
    /\ status' = IF i + 1 > Len(midi_files) THEN "done" ELSE "running"
    /\ UNCHANGED <<converter, midi_vars, not_midi>>

InitMidi ==
    /\ converter = "midi"
    /\ midi_dir \in SUBSET MidiNames
    /\ midi_files = << >>
    /\ i = 1
    /\ status = "collect"
    /\ dirs \in {{}, {midi_out}}
    /\ files = << >>
    /\ stdout = << >>
    /\ IdleCal /\ IdleRwc /\ IdleSalami /\ IdleSeg /\ IdleHeman
    /\ IdleAnn

NextMidi == MidiCollect \/ MidiTrack

SpecMidi == InitMidi /\ [][NextMidi]_vars

\* C4: process_folder writes one JAMS file per input MIDI file: two distinct
\* inputs found (.mid or .MID) have distinct output paths, so that after the
\* run every input has the output file written from it
C4_MidiOneOutputPerInput ==
    (converter = "midi" /\ status = "done") =>
        /\ \A k, n \in DOMAIN midi_files :
              k # n => midi_jams_file(midi_files[k]) # midi_jams_file(midi_files[n])
        /\ \A k \in DOMAIN midi_files :
              \E p \in DOMAIN files : files[p].source = midi_files[k]
        /\ Cardinality(DOMAIN files) = Len(midi_files)

---------------------------------------------------------------------------
(* RWC-POP: rwcpopmelody_parser.process_folder and create_jams *)

rwc_smf_dir == <<"s">>
rwc_out == <<"o">>

SmfNames ==
    { <<"R", "M", "-", "P", "0", "0", "1", ".", "M", "I", "D">>,
      <<"R", "M", "-", "P", "0", "1", "2", ".", "M", "I", "D">> }

\* texts of TrackNameEvents
NameMelody == <<"M", "e", "l", "o", "d", "y">>
NameVocal == <<" ", "V", "O", " ", "c", "a", "l">>
NameBass == <<"B", "a", "s", "s">>
TrackTexts == { << >>, <<NameMelody>>, <<NameVocal>>, <<NameBass>> }

\* notes: start, end, pitch
Note(a, b, p) == [start |-> a, end |-> b, pitch |-> p]
NotesA == <<Note(1, 3, 60)>>
NotesB == <<Note(0, 2, 62), Note(2, 5, 64)>>

\* a track: the texts of its TrackNameEvents, in order, and the instrument
\* pretty_midi makes of it: none for a track without channel events, else one
\* instrument holding the track's notes
MidiTracks == [text : TrackTexts, inst : { << >>, << << >> >>, <<NotesA>>, <<NotesB>> }]

\* midi.read_midifile: the patterns an smf file may hold
Patterns == UNION { [1..n -> MidiTracks] : n \in 1..MaxTracks }

\* line 92-93: the texts of all TrackNameEvents of all tracks, lower-cased
\* and without whitespace
RECURSIVE track_texts(_)
track_texts(pattern) ==
    IF Len(pattern) = 0 THEN << >>
    ELSE [k \in DOMAIN pattern[1].text |-> join_split(lower(pattern[1].text[k]))]
         \o track_texts(Tail(pattern))

\* line 99
truncate4(texts) == [k \in DOMAIN texts |-> prefix(texts[k], 4)]

melo == <<"m", "e", "l", "o">>
voca == <<"v", "o", "c", "a">>

\* list.index: 0-based position of the first element equal to x
list_index(l, x) == (CHOOSE k \in DOMAIN l : l[k] = x /\ \A j \in 1..(k - 1) : l[j] # x) - 1
contains(l, x) == \E k \in DOMAIN l : l[k] = x

\* the selector taking the first track named either way
select_index_first_of_both(track_text) ==
    IF contains(track_text, melo) \/ contains(track_text, voca)
    THEN (CHOOSE k \in DOMAIN track_text :
            /\ track_text[k] \in {melo, voca}
            /\ \A j \in 1..(k - 1) : track_text[j] \notin {melo, voca}) - 1
    ELSE -1

\* lines 100-106: the melody track's index, -1 when the track is aborted
select_index(track_text) ==
    IF contains(track_text, melo) THEN list_index(track_text, melo)
    ELSE IF contains(track_text, voca) THEN list_index(track_text, voca)
    ELSE -1

\* the reduced pattern taking the last track
reduced_pattern_last(pattern, idx) == <<pattern[1], pattern[Len(pattern)]>>

\* lines 82, 108: track 0 and the melody track
reduced_pattern(pattern, idx) == <<pattern[1], pattern[idx + 1]>>

\* lines 170-172
rwc_jams_file(smf) ==
    path_join(rwc_out, replace(basename(smf), ext_MID, <<".">> \o jams_ext))

\* line 115
rwc_temp_midi(out_file) ==
    replace(out_file, <<".">> \o jams_ext,
            <<".", "t", "e", "m", "p", ".", "m", "i", "d">>)

\* pretty_midi.PrettyMIDI(temp_midi).instruments
pm_instruments(pattern) ==
    IF Len(pattern) = 0 THEN << >>
    ELSE pattern[1].inst \o pattern[2].inst

\* lines 135-137
rwc_observations(notes) ==
    [k \in DOMAIN notes |->
        [time |-> notes[k].start, duration |-> notes[k].end - notes[k].start,
         value |-> notes[k].pitch, confidence |-> 1]]

RwcLoopNext ==
    /\ i' = i + 1
    /\ status' = IF i + 1 > Len(smf_files) THEN "done" ELSE "running"

\* process_folder lines 166-175 and create_jams line 76: the next smf file
\* is read
RwcRead ==
    /\ converter = "rwc"
    /\ status = "running"
    /\ pc = "read"
    /\ \E pattern \in Patterns : m' = pattern
    /\ SetFS([smkdirs(FS, dirname(rwc_jams_file(smf_files[i]))) EXCEPT !.stdout =
                Append(@, [msg |-> "print", arg |-> smf_files[i]])])
    /\ ret' = "pending"
    /\ pc' = "select"
    /\ UNCHANGED <<converter, i, status, smf_files, index, melody, not_rwc>>

\* the locals of create_jams are gone when it returns
RwcReturn(value) ==
    /\ ret' = value
    /\ m' = << >>
    /\ index' = -1
    /\ melody' = << >>
    /\ pc' = "read"
    /\ RwcLoopNext

\* create_jams lines 79-116: find the melody track and write the temporary
\* midi file, or abort the track
RwcSelect ==
    /\ converter = "rwc"
    /\ status = "running"
    /\ pc = "select"
    /\ LET out_file == rwc_jams_file(smf_files[i])
           texts == track_texts(m)
           idx == select_index(truncate4(texts))
       IN  IF Len(texts) # Len(m)
           THEN \* line 95: AssertionError
                /\ status' = "raised"
                /\ UNCHANGED <<fs_vars, i, pc, m, index, melody, ret>>
           ELSE IF idx = -1
           THEN \* lines 105-106
                /\ stdout' = Append(stdout, [msg |-> "ABORTING TRACK",
                                             arg |-> smf_files[i]])
                /\ RwcReturn(0)
                /\ UNCHANGED <<dirs, files>>
           ELSE /\ index' = idx
                /\ melody' = reduced_pattern(m, idx)
                /\ files' = (rwc_temp_midi(out_file) :> melody') @@ files
                /\ pc' = "convert"
                /\ UNCHANGED <<dirs, stdout, i, status, m, ret>>
    /\ UNCHANGED <<converter, smf_files, not_rwc>>

\* create_jams lines 118-150: load the temporary file, build and save the jam
RwcConvert ==
    /\ converter = "rwc"
    /\ status = "running"
    /\ pc = "convert"
    /\ LET out_file == rwc_jams_file(smf_files[i])
           instruments == pm_instruments(files[rwc_temp_midi(out_file)])
       IN  IF \/ Len(instruments) # 2
              \/ instruments[1] # << >>
              \/ Len(instruments[2]) = 0
           THEN \* lines 121-123: AssertionError
                /\ status' = "raised"
                /\ UNCHANGED <<fs_vars, pc>>
           ELSE /\ files' = (out_file :>
                              [namespace |-> "pitch_midi",
                               data |-> rwc_observations(instruments[2]),
                               n_track |-> int(SubSeq(basename(smf_files[i]), 5, 7)) - 1])
                             @@ files
                /\ pc' = "cleanup"
                /\ UNCHANGED <<dirs, stdout, status>>
    /\ UNCHANGED <<converter, i, smf_files, m, index, melody, ret, not_rwc>>

\* create_jams line 153 and the return to process_folder's loop
RwcCleanup ==
    /\ converter = "rwc"
    /\ status = "running"
    /\ pc = "cleanup"
    /\ files' = [p \in DOMAIN files \ {rwc_temp_midi(rwc_jams_file(smf_files[i]))}
                  |-> files[p]]
    /\ RwcReturn("None")
    /\ UNCHANGED <<converter, dirs, stdout, smf_files, not_rwc>>

InitRwc ==
    /\ converter = "rwc"
    /\ \E listing \in SUBSET SmfNames :
          smf_files = find_with_extension(rwc_smf_dir, listing, ext_MID)
    /\ i = 1
    /\ status = IF Len(smf_files) = 0 THEN "done" ELSE "running"
    /\ pc = "read"
    /\ m = << >> /\ index = -1 /\ melody = << >> /\ ret = "None"
    /\ dirs = {}
    /\ files = << >>
    /\ stdout = << >>
    /\ IdleCal /\ IdleMidi /\ IdleSalami /\ IdleSeg /\ IdleHeman
    /\ IdleAnn

NextRwc == RwcRead \/ RwcSelect \/ RwcConvert \/ RwcCleanup

SpecRwc == InitRwc /\ [][NextRwc]_vars

---------------------------------------------------------------------------
(* Properties of the RWC-POP converter *)

\* a track name lower-cased, without its whitespace, cut to 4 characters
NormName(t) == prefix(lower(SelectSeq(t, LAMBDA c : c # " ")), 4)

\* every track of m has exactly one TrackNameEvent (line 95 passes)
AllNamed == \A k \in DOMAIN m : Len(m[k].text) = 1
NamedAs(x) == {k \in DOMAIN m : NormName(m[k].text[1]) = x}
Least(S) == CHOOSE k \in S : \A j \in S : k <= j

RwcOut == rwc_jams_file(smf_files[i])

\* C6: the melody-track selector of create_jams takes the first track whose
\* normalised name is 'melo'; only when there is none, the first whose name is
\* 'voca'; when there is neither it returns 0 and writes neither the
\* temporary MIDI file nor the JAMS file
C6_MelodySelector ==
    [][ (converter = "rwc" /\ pc = "select" /\ AllNamed) =>
          /\ NamedAs(melo) # {} =>
                (pc' = "convert" /\ index' = Least(NamedAs(melo)) - 1)
          /\ (NamedAs(melo) = {} /\ NamedAs(voca) # {}) =>
                (pc' = "convert" /\ index' = Least(NamedAs(voca)) - 1)
          /\ (NamedAs(melo) = {} /\ NamedAs(voca) = {}) =>
                /\ ret' = 0
                /\ files' = files
                /\ rwc_temp_midi(RwcOut) \notin DOMAIN files'
                /\ RwcOut \notin DOMAIN files' ]_vars

\* the selector has run on bass, vocal, melody: melody is taken although the
\* vocal track comes first
C6_Witness ==
    /\ pc = "convert"
    /\ Len(m) = 3
    /\ AllNamed
    /\ NormName(m[2].text[1]) = voca
    /\ NormName(m[3].text[1]) = melo
    /\ index = 2

\* C7: when create_jams succeeds, the reduced pattern is track 0 followed by
\* the selected melody track, and the pitch_midi annotation holds one
\* observation per note of the selected track (time = start, duration =
\* end - start, value = pitch, confidence = 1) and nothing else
C7_OnlyMelodyNotes ==
    (converter = "rwc" /\ pc = "cleanup") =>
        LET selected == m[index + 1]
            jam == files[RwcOut]
        IN  /\ files[rwc_temp_midi(RwcOut)] = <<m[1], selected>>
            /\ Len(selected.inst) = 1
            /\ Len(jam.data) = Len(selected.inst[1])
            /\ \A k \in DOMAIN jam.data :
                  LET note == selected.inst[1][k]
                  IN  /\ jam.data[k].time = note.start
                      /\ jam.data[k].duration = note.end - note.start
                      /\ jam.data[k].value = note.pitch
                      /\ jam.data[k].confidence = 1

\* a jam saved from the two notes of a melody track that is followed by
\* another track with a note
C7_Witness ==
    /\ pc = "cleanup"
    /\ Len(m) = 3
    /\ index = 1
    /\ m[2].inst = <<NotesB>>
    /\ m[3].inst = <<NotesA>>
    /\ Len(files[RwcOut].data) = 2

---------------------------------------------------------------------------
(* SALAMI: labels and get_level_segments *)

\* entries of labels_map (lines 34-63)
labels_map ==
    (<<"c", "o", "d", "e">> :> <<"c", "o", "d", "a">>) @@
    (<<"o", "u", "t">> :> <<"o", "u", "t", "r", "o">>) @@
    (<<"t", "a", "g">> :> <<"h", "e", "a", "d">>)

\* fix_label without the lower-casing
fix_label_nolower(label) ==
    IF label \in DOMAIN labels_map THEN labels_map[label] ELSE label

\* fix_label (lines 66-70)
fix_label(label) ==
    LET l == lower(label)
    IN  IF l \in DOMAIN labels_map THEN labels_map[l] ELSE l

\* values of the enum of the segment_salami_function namespace
salami_function_enum ==
    { <<"s", "i", "l", "e", "n", "c", "e">>, <<"v", "e", "r", "s", "e">>,
      <<"c", "o", "d", "a">>, <<"o", "u", "t", "r", "o">>, <<"e", "n", "d">> }

\* re.match of the segment_salami_upper pattern: a capital letter and primes
match_upper(label) ==
    /\ Len(label) >= 1
    /\ label[1] \in DOMAIN lower_table
    /\ \A k \in 2..Len(label) : label[k] = "'"

\* re.match of the segment_salami_lower pattern: a small letter and primes
match_lower(label) ==
    /\ Len(label) >= 1
    /\ label[1] \in {lower_table[c] : c \in DOMAIN lower_table}
    /\ \A k \in 2..Len(label) : label[k] = "'"

\* lines 111-117: the segments one label of a row at time t adds
label_segments(t, label, lev) ==
    IF lev = "function" \/ lev = "instrument"
    THEN LET fixed == fix_label(strip(label))
         IN  IF \/ lev = "function" /\ fixed \in salami_function_enum
                \/ lev = "instrument" /\ fixed \in {<<"(">>, <<")">>}
             THEN << <<t, fixed>> >>
             ELSE << >>
    ELSE IF \/ lev = "upper" /\ match_upper(label)
            \/ lev = "lower" /\ match_lower(label)
         THEN << <<t, label>> >>
         ELSE << >>

\* lines 109-117: the loop over the labels of one row
RECURSIVE row_segments(_, _, _)
row_segments(t, labels, lev) ==
    IF Len(labels) = 0 THEN << >>
    ELSE label_segments(t, labels[1], lev) \o row_segments(t, Tail(labels), lev)

\* get_level_segments (lines 82-118)
RECURSIVE get_level_segments(_, _)
get_level_segments(frame, lev) ==
    IF Len(frame) = 0 THEN << >>
    ELSE row_segments(frame[1].time, split(frame[1].labels, ","), lev)
         \o get_level_segments(Tail(frame), lev)

\* label texts of annotation rows
TxtSilence == <<"S", "i", "l", "e", "n", "c", "e">>
TxtAaVerse == <<"A", ",", " ", "a", ",", " ", "V", "e", "r", "s", "e">>
TxtB == <<"b">>
TxtC == <<"c">>
TxtACode == <<"a", ",", "C", "o", "d", "e">>
TxtOutZz == <<" ", "O", "u", "t", " ", ",", "z", "z">>
TxtEnd == <<"E", "n", "d">>
TxtBVerses == <<"B", "'", ",", "v", "e", "r", "s", "e", ",", "V", "e", "r", "s", "e">>
TxtTag == <<"t", "a", "g">>
TxtZz == <<"z", "z">>

RowTexts == { TxtSilence, TxtAaVerse, TxtB, TxtACode, TxtOutZz, TxtEnd,
              TxtBVerses, TxtTag }
RowTimes == {0, 2, 5}
Levels == {"function", "upper", "lower", "instrument"}

Frames == UNION { [1..n -> [time : RowTimes, labels : RowTexts]] : n \in 0..MaxDfRows }

\* a call of get_level_segments(df, level)
GetLevelSegments ==
    /\ converter = "segments"
    /\ status = "running"
    /\ segments' = get_level_segments(df, level)
    /\ status' = "done"
    /\ UNCHANGED <<converter, i, fs_vars, df, level, not_seg>>

InitSegments ==
    /\ converter = "segments"
    /\ df \in Frames
    /\ level \in Levels
    /\ segments = << >>
    /\ i = 1
    /\ status = "running"
    /\ dirs = {} /\ files = << >> /\ stdout = << >>
    /\ IdleCal /\ IdleMidi /\ IdleRwc /\ IdleSalami /\ IdleHeman
    /\ IdleAnn

NextSegments == GetLevelSegments

SpecSegments == InitSegments /\ [][NextSegments]_vars

---------------------------------------------------------------------------
(* Properties of get_level_segments *)

\* the comma-separated labels of row r of df
LabelsOf(r) == split(df[r].labels, ",")

NonSpace(l) == {k \in DOMAIN l : l[k] # " "}

\* label l without leading and trailing spaces, lower-cased and remapped
Remapped(l) ==
    LET ns == NonSpace(l)
        x == IF ns = {} THEN << >>
             ELSE lower(SubSeq(l, CHOOSE a \in ns : \A b \in ns : a <= b,
                                  CHOOSE a \in ns : \A b \in ns : a >= b))
    IN  IF x \in DOMAIN labels_map THEN labels_map[x] ELSE x

\* the (row, label) positions whose remapped label the namespace allows
AllowedAt ==
    UNION { { <<r, j>> : j \in {n \in DOMAIN LabelsOf(r) :
                                  Remapped(LabelsOf(r)[n]) \in salami_function_enum} } :
            r \in DOMAIN df }

\* how many allowed positions come up to q in row order, label order
RankOf(q) ==
    Cardinality({x \in AllowedAt : x[1] < q[1] \/ (x[1] = q[1] /\ x[2] <= q[2])})

\* C9: for level 'function' get_level_segments returns, in row order and in
\* label order within a row, one (time, remapped label) tuple for each
\* comma-separated label whose stripped and remapped form is a value of the
\* segment_salami_function enum, and nothing for the other labels
C9_FunctionSegments ==
    (converter = "segments" /\ status = "done" /\ level = "function") =>
        /\ Len(segments) = Cardinality(AllowedAt)
        /\ \A q \in AllowedAt :
              segments[RankOf(q)] = <<df[q[1]].time, Remapped(LabelsOf(q[1])[q[2]])>>

\* " Out ,zz" at time 2 then "B',verse,Verse" at time 5 give outro, verse, verse
C9_Witness ==
    /\ converter = "segments"
    /\ status = "done"
    /\ level = "function"
    /\ df = << [time |-> 2, labels |-> TxtOutZz], [time |-> 5, labels |-> TxtBVerses] >>
    /\ segments = << <<2, <<"o", "u", "t", "r", "o">> >>,
                     <<5, <<"v", "e", "r", "s", "e">> >>,
                     <<5, <<"v", "e", "r", "s", "e">> >> >>

---------------------------------------------------------------------------
(* SALAMI: create_annotations, get_duration, create_JAMS, process_one *)

salami_in == <<"i">>
salami_out == <<"o">>
SONG_ID == <<"S", "O", "N", "G", "_", "I", "D">>

TxtVerse == <<"V", "e", "r", "s", "e">>
Row(t, l) == [time |-> t, labels |-> l]

\* annotation files
dfA == <<Row(0, TxtSilence), Row(2, TxtAaVerse), Row(5, TxtB), Row(9, TxtEnd)>>
dfB == <<Row(0, <<"a">>), Row(3, TxtB), Row(3, TxtC), Row(4, TxtACode),
         Row(7, TxtSilence)>>
dfC == <<Row(0, TxtZz)>>
dfD == <<Row(0, TxtSilence), Row(8, TxtVerse), Row(5, TxtVerse), Row(6, TxtEnd)>>

\* a textfile<n>.txt: absent, unreadable (read_csv raises IOError) or read
Absent == [state |-> "absent", rows |-> << >>]
Unreadable == [state |-> "ioerror", rows |-> << >>]
Readable(frame) == [state |-> "ok", rows |-> frame]

\* the annotation directories a track may have: textfile1..3
AnnDirs ==
    { <<Absent, Absent, Absent>>,
      <<Readable(dfC), Absent, Absent>>,
      <<Absent, Unreadable, Absent>>,
      <<Readable(dfA), Absent, Absent>>,
      <<Absent, Readable(dfB), Absent>>,
      <<Absent, Absent, Readable(dfD)>>,
      <<Readable(dfA), Unreadable, Readable(dfD)>>,
      <<Readable(dfA), Readable(dfB), Readable(dfD)>> }

\* the levels in the order of namespace_dict (lines 137-142)
SalamiLevels == <<"function", "upper", "lower">>
namespace_dict(lev) ==
    CASE lev = "function" -> "segment_salami_function"
      [] lev = "upper" -> "segment_salami_upper"
      [] lev = "lower" -> "segment_salami_lower"

\* the observations valued with the label of the later segment of each pair
RECURSIVE observations_endlabel(_)
observations_endlabel(segs) ==
    IF Len(segs) < 2 THEN << >>
    ELSE LET dur == segs[2][1] - segs[1][1]
         IN  (IF dur <= 0 THEN << >>
              ELSE << [time |-> segs[1][1], duration |-> dur, value |-> segs[2][2]] >>)
             \o observations_endlabel(Tail(segs))

\* lines 173-180: the observations of the consecutive pairs of segments
RECURSIVE observations(_)
observations(segs) ==
    IF Len(segs) < 2 THEN << >>
    ELSE LET dur == segs[2][1] - segs[1][1]
         IN  (IF dur <= 0 THEN << >>
              ELSE << [time |-> segs[1][1], duration |-> dur, value |-> segs[1][2]] >>)
             \o observations(Tail(segs))

\* the annotations of the levels of one file, the empty ones too
RECURSIVE level_annotations_all(_, _, _)
level_annotations_all(frame, annotation_id, levs) ==
    IF Len(levs) = 0 THEN << >>
    ELSE << [namespace |-> namespace_dict(levs[1]), annotator |-> annotation_id,
             data |-> observations(get_level_segments(frame, levs[1]))] >>
         \o level_annotations_all(frame, annotation_id, Tail(levs))

\* lines 164-184: the annotations of the levels of one file
RECURSIVE level_annotations(_, _, _)
level_annotations(frame, annotation_id, levs) ==
    IF Len(levs) = 0 THEN << >>
    ELSE LET data == observations(get_level_segments(frame, levs[1]))
         IN  (IF Len(data) > 0
              THEN << [namespace |-> namespace_dict(levs[1]),
                       annotator |-> annotation_id, data |-> data] >>
              ELSE << >>)
             \o level_annotations(frame, annotation_id, Tail(levs))

LogLine(fs, kind, what) ==
    [fs EXCEPT !.stdout = Append(@, [msg |-> kind, arg |-> what])]

\* create_annotations (lines 121-184): the jam's annotations and the log after
create_annotations(jam, ann_file, annotation_id) ==
    IF ann_file.state = "ioerror"
    THEN [annotations |-> jam.annotations,
          fs |-> LogLine(jam.fs, "Annotation missing", annotation_id)]
    ELSE [annotations |-> jam.annotations
                          \o level_annotations(ann_file.rows, annotation_id, SalamiLevels),
          fs |-> jam.fs]

RECURSIVE list_max(_)
list_max(l) ==
    IF Len(l) = 1 THEN l[1]
    ELSE LET r == list_max(Tail(l)) IN IF l[1] >= r THEN l[1] ELSE r

RECURSIVE list_min(_)
list_min(l) ==
    IF Len(l) = 1 THEN l[1]
    ELSE LET r == list_min(Tail(l)) IN IF l[1] <= r THEN l[1] ELSE r

\* get_duration taking the least of the last boundaries
get_duration_min(annotations) ==
    LET durs == [k \in DOMAIN annotations |->
                    annotations[k].data[Len(annotations[k].data)].time
                    + annotations[k].data[Len(annotations[k].data)].duration]
    IN  IF Len(durs) = 0 THEN [exc |-> "ValueError", value |-> 0]
        ELSE [exc |-> "none", value |-> list_min(durs)]

\* get_duration (lines 187-205); np.max of an empty list raises ValueError
get_duration(annotations) ==
    LET durs == [k \in DOMAIN annotations |->
                    annotations[k].data[Len(annotations[k].data)].time
                    + annotations[k].data[Len(annotations[k].data)].duration]
    IN  IF Len(durs) = 0 THEN [exc |-> "ValueError", value |-> 0]
        ELSE [exc |-> "none", value |-> list_max(durs)]

\* os.path.isfile(textfile<annotation_id>.txt)
isfile(song_id, annotation_id) ==
    song_id \in DOMAIN ann_dirs /\ ann_dirs[song_id][annotation_id].state # "absent"

\* lines 232-235: the loop over annotation_id 1..3
RECURSIVE collect_annotations(_, _, _)
collect_annotations(jam, song_id, annotation_id) ==
    IF annotation_id > 3 THEN jam
    ELSE collect_annotations(
            IF isfile(song_id, annotation_id)
            THEN create_annotations(jam, ann_dirs[song_id][annotation_id], annotation_id)
            ELSE jam,
            song_id, annotation_id + 1)

\* lines 227-244
build_and_save(fs, song_id, out_file) ==
    LET jam == collect_annotations([annotations |-> << >>, fs |-> fs], song_id, 1)
        dur == get_duration(jam.annotations)
    IN  IF dur.exc # "none" THEN [exc |-> dur.exc, fs |-> jam.fs]
        ELSE [exc |-> "none",
              fs |-> [jam.fs EXCEPT !.files =
                        (out_file :> [song_id |-> song_id,
                                      duration |-> dur.value,
                                      annotations |-> jam.annotations]) @@ @]]

\* create_JAMS without its sanity check
create_JAMS_nocheck(fs, song_id, out_file) == build_and_save(fs, song_id, out_file)

\* create_JAMS (lines 208-244): the exception raised and the files and log after
create_JAMS(fs, song_id, out_file) ==
    IF song_id \notin DOMAIN ann_dirs
    THEN [exc |-> "none", fs |-> LogLine(fs, "Path not found", song_id)]
    ELSE build_and_save(fs, song_id, out_file)

salami_out_file(song_id) == path_join(salami_out, basename(song_id) \o <<".">> \o jams_ext)

\* process_one (lines 247-255)
process_one(fs, metadata) ==
    IF metadata = SONG_ID THEN [exc |-> "none", fs |-> fs]
    ELSE create_JAMS(LogLine(fs, "Parsing file", metadata), metadata,
                     salami_out_file(metadata))

---------------------------------------------------------------------------
(* SALAMI: process, with joblib's Parallel(n_jobs) over the rows *)

\* the SONG_ID of the k-th track of metadata.csv
song_id_of(k) == str(k + 8)

Workers == 1..n_jobs

\* process lines 262-268: the output folder is made and the csv is read
SalStart ==
    /\ converter = "salami"
    /\ status = "start"
    /\ dirs' = dirs \cup {salami_out}
    /\ status' = "running"
    /\ UNCHANGED <<converter, i, files, stdout, salami_vars, not_salami>>

\* Parallel hands the next row to an idle worker
SalDispatch(w) ==
    /\ converter = "salami"
    /\ status = "running"
    /\ w \in Workers
    /\ ~aborting
    /\ running[w] = 0
    /\ next_row <= Len(csv_rows)
    /\ running' = [running EXCEPT ![w] = next_row]
    /\ outcome' = [outcome EXCEPT ![next_row] = "running"]
    /\ next_row' = next_row + 1
    /\ UNCHANGED <<common_vars, fs_vars, csv_rows, ann_dirs, n_jobs, aborting,
                   not_salami>>

\* a worker runs process_one on its row; an exception makes Parallel abort
SalRun(w) ==
    /\ converter = "salami"
    /\ w \in Workers
    /\ running[w] # 0
    /\ LET r == process_one(FS, csv_rows[running[w]])
       IN  /\ SetFS(r.fs)
           /\ outcome' = [outcome EXCEPT ![running[w]] =
                              IF r.exc = "none" THEN "returned" ELSE "raised"]
           /\ aborting' = (aborting \/ r.exc # "none")
    /\ running' = [running EXCEPT ![w] = 0]
    /\ status' = IF aborting' THEN "raised"
                 ELSE IF \A k \in DOMAIN outcome' : outcome'[k] = "returned" THEN "done"
                 ELSE status
    /\ UNCHANGED <<converter, i, csv_rows, ann_dirs, n_jobs, next_row, not_salami>>

\* an aborting Parallel terminates a worker that is still at work
SalKill(w) ==
    /\ converter = "salami"
    /\ w \in Workers
    /\ aborting
    /\ running[w] # 0
    /\ outcome' = [outcome EXCEPT ![running[w]] = "killed"]
    /\ running' = [running EXCEPT ![w] = 0]
    /\ UNCHANGED <<common_vars, fs_vars, csv_rows, ann_dirs, n_jobs, next_row,
                   aborting, not_salami>>

\* metadata.csv: the header row and n tracks; the annotation folder holds a
\* directory for some of them
InitSalami ==
    /\ converter = "salami"
    /\ \E n \in 0..MaxRows :
          /\ csv_rows = <<SONG_ID>> \o [k \in 1..n |-> song_id_of(k)]
          /\ \E present \in SUBSET (1..n) :
                \E kinds \in [present -> AnnDirs] :
                   ann_dirs = [id \in {song_id_of(k) : k \in present} |->
                                 kinds[CHOOSE k \in present : song_id_of(k) = id]]
    /\ n_jobs \in 1..MaxJobs
    /\ next_row = 1
    /\ running = [w \in 1..n_jobs |-> 0]
    /\ aborting = FALSE
    /\ outcome = [k \in DOMAIN csv_rows |-> "pending"]
    /\ i = 1
    /\ status = "start"
    /\ dirs = {}
    /\ files = << >>
    /\ stdout = << >>
    /\ IdleCal /\ IdleMidi /\ IdleRwc /\ IdleSeg /\ IdleHeman
    /\ IdleAnn

NextSalami ==
    \/ SalStart
    \/ \E w \in 1..MaxJobs : SalDispatch(w) \/ SalRun(w) \/ SalKill(w)

SpecSalami == InitSalami /\ [][NextSalami]_vars

---------------------------------------------------------------------------
(* Properties of the SALAMI converter *)

TrackRows == {k \in DOMAIN csv_rows : csv_rows[k] # SONG_ID}
HasDir(k) == csv_rows[k] \in DOMAIN ann_dirs
Ended(k) == outcome[k] \in {"returned", "raised"}
OutFile(k) == salami_out_file(csv_rows[k])

\* C3: create_JAMS for a track whose annotation directory does not exist logs
\* a warning and returns without raising and without writing a file; the
\* files of the batch are those of the other tracks that returned
C3_MissingDirSkipped ==
    converter = "salami" =>
        /\ \A k \in TrackRows :
              (~HasDir(k) /\ Ended(k)) =>
                 /\ outcome[k] = "returned"
                 /\ OutFile(k) \notin DOMAIN files
                 /\ Printed([msg |-> "Path not found", arg |-> csv_rows[k]])
        /\ DOMAIN files = {OutFile(k) : k \in {j \in TrackRows :
                                                  HasDir(j) /\ outcome[j] = "returned"}}

\* a finished batch whose first track had no directory and whose second
\* track was saved
C3_Witness ==
    /\ converter = "salami"
    /\ status = "done"
    /\ Len(csv_rows) = 3
    /\ ~HasDir(2)
    /\ outcome[2] = "returned"
    /\ OutFile(3) \in DOMAIN files

\* the rows processed one after the other, up to the first exception
RECURSIVE sequential(_, _)
sequential(fs, rows) ==
    IF Len(rows) = 0 THEN fs
    ELSE LET r == process_one(fs, rows[1])
         IN  IF r.exc # "none" THEN r.fs ELSE sequential(r.fs, Tail(rows))

Finished == status \in {"done", "raised"} /\ \A w \in Workers : running[w] = 0

\* C5: whatever n_jobs and the interleaving of the workers, when process ends
\* every row has been processed once, the header row has no file, rows with
\* distinct SONG_IDs have distinct output paths, and the output files and
\* their contents are those of processing the rows one after the other
C5_ParallelAsSequential ==
    (converter = "salami" /\ Finished) =>
        /\ \A k \in DOMAIN csv_rows : Ended(k)
        /\ salami_out_file(SONG_ID) \notin DOMAIN files
        /\ \A k, j \in TrackRows : k # j => OutFile(k) # OutFile(j)
        /\ files = sequential([dirs |-> {salami_out}, files |-> << >>,
                                stdout |-> << >>], csv_rows).files

LastEnd(a) == a.data[Len(a.data)].time + a.data[Len(a.data)].duration

\* C10: the duration create_JAMS stores in a saved JAMS is the greatest, over
\* its annotations, of the annotation's last boundary: the time of its last
\* observation plus that observation's duration
C10_DurationIsMaxLastBoundary ==
    converter = "salami" =>
        \A p \in DOMAIN files :
           LET jam == files[p]
               ends == {LastEnd(jam.annotations[k]) : k \in DOMAIN jam.annotations}
           IN  /\ jam.duration \in ends
               /\ \A e \in ends : e <= jam.duration

\* a saved JAMS of four annotations whose last boundaries differ
C10_Witness ==
    /\ converter = "salami"
    /\ \E p \in DOMAIN files :
          /\ Len(files[p].annotations) = 4
          /\ files[p].duration = 9
          /\ \E k \in DOMAIN files[p].annotations :
                /\ LastEnd(files[p].annotations[k]) = 4
                /\ Len(files[p].annotations[k].data) = 2

\* C11: a saved JAMS of a track holds at most 3 annotations, whatever
\* annotation text files the track has
C11_AtMostThreeAnnotations ==
    converter = "salami" =>
        \A p \in DOMAIN files : Len(files[p].annotations) <= 3

\* the annotations create_JAMS has collected when it calls get_duration for
\* the track of row k (line 238)
CollectedFor(k) ==
    collect_annotations([annotations |-> << >>, fs |-> FS], csv_rows[k], 1).annotations

\* C13: whenever create_JAMS has called get_duration for a track whose
\* annotation directory exists, the JAMS held at least one annotation and
\* get_duration raised nothing
C13_GetDurationPrecondition ==
    converter = "salami" =>
        \A k \in TrackRows :
           (HasDir(k) /\ Ended(k)) =>
              /\ Len(CollectedFor(k)) >= 1
              /\ outcome[k] # "raised"

---------------------------------------------------------------------------
(* HEMAN: heman_parser.process, parse_song, create_jams, create_annotation *)

heman_in == <<"h">>
heman_out == <<"o">>
ext_pkl == <<".", "p", "k", "l">>

\* the file names the input folder may hold
HemanNames ==
    { <<"a", ".", "p", "k", "l">>, <<"b", ".", "p", "k", "l">>,
      <<"a", ".", "b", ".", "p", "k", "l">>, <<"a", ".", "P", "K", "L">>,
      <<"a", ".", "t", "x", "t">> }

\* an annotator's patterns: a list of (confidence, patterns), each pattern a
\* list of (onset, pitch)
AnnTwoPatterns == << <<1, << << <<0, 60>>, <<1, 62>> >>, << <<2, 60>> >> >> >> >>
AnnTwoConfidences == << <<1, << << <<0, 60>> >> >> >>, <<2, << << <<3, 64>> >> >> >> >>
AnnNone == << >>

\* the pickled songs: a list of (annotator key, annotation), the keys distinct
HemanSongs ==
    { << >>,
      << <<"x", AnnTwoPatterns>> >>,
      << <<"y", AnnTwoConfidences>> >>,
      << <<"x", AnnTwoConfidences>>, <<"y", AnnNone>> >> }

\* os.path.splitext(p)[0] cutting at the first dot
splitext_first(p) ==
    LET k == find_char(p, ".", 1)
    IN  IF k > 0 /\ \E j \in 1..(k - 1) : p[j] # "."
        THEN SubSeq(p, 1, k - 1) ELSE p

\* os.path.splitext(p)[0] of a name without directory: the text before the
\* last dot, the leading dots not counted
splitext(p) ==
    LET k == rfind_char(p, ".", Len(p))
    IN  IF k > 0 /\ \E j \in 1..(k - 1) : p[j] # "."
        THEN SubSeq(p, 1, k - 1) ELSE p

\* create_jams (lines 24-30)
heman_create_jams(song_title) ==
    [duration |-> 1, artist |-> << >>, title |-> song_title, annotations |-> << >>]

\* lines 48-58: the observations of one pattern
pattern_observations(pattern, pattern_id, confidence) ==
    [k \in 1..Len(pattern) |->
        [time |-> pattern[k][1], duration |-> 1,
         value |-> [pattern_id |-> pattern_id, midi_pitch |-> pattern[k][2],
                    morph_pitch |-> pattern[k][2], staff |-> 1,
                    occurrence_id |-> 1],
         confidence |-> confidence]]

\* lines 47-59: the patterns of one confidence, pattern_id counting on
RECURSIVE patterns_observations(_, _, _)
patterns_observations(patterns, pattern_id, confidence) ==
    IF Len(patterns) = 0 THEN << >>
    ELSE pattern_observations(patterns[1], pattern_id, confidence)
         \o patterns_observations(Tail(patterns), pattern_id + 1, confidence)

\* lines 45-59: the loop over ann.keys()
RECURSIVE ann_observations(_, _)
ann_observations(ann, pattern_id) ==
    IF Len(ann) = 0 THEN << >>
    ELSE patterns_observations(ann[1][2], pattern_id, ann[1][1])
         \o ann_observations(Tail(ann), pattern_id + Len(ann[1][2]))

\* create_annotation (lines 33-61)
create_annotation(ann, ann_id) ==
    [namespace |-> "pattern_jku", corpus |-> "HEMAN", annotator |-> ann_id,
     data |-> ann_observations(ann, 1)]

\* lines 72-74: one annotation per key of the song
song_annotations(song) ==
    [k \in 1..Len(song) |-> create_annotation(song[k][2], song[k][1])]

\* parse_song (lines 64-77): the files after the song is saved
parse_song(fs, song_file, out_dir) ==
    LET song == heman_dir[basename(song_file)]
        song_title == splitext(basename(song_file))
        jam == [heman_create_jams(song_title) EXCEPT
                   !.annotations = @ \o song_annotations(song)]
        out_file == path_join(out_dir, song_title \o <<".">> \o jams_ext)
    IN  [fs EXCEPT !.files = (out_file :> jam) @@ @]

\* glob.glob(os.path.join(in_dir, "*.pkl")): the matching paths
heman_glob == {path_join(heman_in, name) :
                  name \in {x \in DOMAIN heman_dir : glob_match(x, ext_pkl)}}

\* process lines 84-89: the output folder is made and the songs are listed,
\* in the arbitrary order of glob
HemanStart ==
    /\ converter = "heman"
    /\ status = "start"
    /\ dirs' = dirs \cup {heman_out}
    /\ \E order \in {f \in [1..Cardinality(heman_glob) -> heman_glob] : Distinct(f)} :
          song_files' = order
    /\ i' = 1
    /\ status' = IF Len(song_files') = 0 THEN "done" ELSE "running"
    /\ UNCHANGED <<converter, files, stdout, heman_dir, not_heman>>

\* lines 90-91: one iteration of the loop over song_files
HemanSong ==
    /\ converter = "heman"
    /\ status = "running"
    /\ SetFS(parse_song(FS, song_files[i], heman_out))
    /\ i' = i + 1
    /\ status' = IF i + 1 > Len(song_files) THEN "done" ELSE "running"
    /\ UNCHANGED <<converter, heman_vars, not_heman>>

InitHeman ==
    /\ converter = "heman"
    /\ \E names \in {S \in SUBSET HemanNames : Cardinality(S) <= MaxPkl} :
          heman_dir \in [names -> HemanSongs]
    /\ song_files = << >>
    /\ i = 1
    /\ status = "start"
    /\ dirs \in {{}, {heman_out}}
    /\ files = << >>
    /\ stdout = << >>
    /\ IdleCal /\ IdleMidi /\ IdleRwc /\ IdleSalami /\ IdleSeg
    /\ IdleAnn

NextHeman == HemanStart \/ HemanSong

SpecHeman == InitHeman /\ [][NextHeman]_vars

\* the input files process converts: the *.pkl files of the input folder
PklNames == {x \in DOMAIN heman_dir : glob_match(x, ext_pkl)}

\* <out_dir>/<basename without extension>.jams
HemanOut(name) == path_join(heman_out, drop_last(name, Len(ext_pkl)) \o <<".">> \o jams_ext)

\* C12: when process ends, every *.pkl file of the input folder has its own
\* output file <out_dir>/<basename without extension>.jams and nothing else
\* is written; that JAMS is titled with the basename, has duration 1 and
\* holds exactly one pattern_jku annotation per annotator key of the song,
\* with that key as annotator
C12_HemanOneJamsPerSong ==
    (converter = "heman" /\ status = "done") =>
        /\ DOMAIN files = {HemanOut(name) : name \in PklNames}
        /\ \A a, b \in PklNames : a # b => HemanOut(a) # HemanOut(b)
        /\ \A name \in PklNames :
              LET jam == files[HemanOut(name)]
                  song == heman_dir[name]
              IN  /\ jam.title = drop_last(name, Len(ext_pkl))
                  /\ jam.duration = 1
                  /\ Len(jam.annotations) = Len(song)
                  /\ \A k \in DOMAIN jam.annotations :
                        jam.annotations[k].namespace = "pattern_jku"
                  /\ \A s \in DOMAIN song :
                        Cardinality({k \in DOMAIN jam.annotations :
                                        jam.annotations[k].annotator = song[s][1]}) = 1

\* a finished run over a.pkl and a.b.pkl, one of them a song of two annotators
C12_Witness ==
    /\ converter = "heman"
    /\ status = "done"
    /\ {<<"a", ".", "p", "k", "l">>, <<"a", ".", "b", ".", "p", "k", "l">>} \subseteq PklNames
    /\ \E name \in PklNames :
          /\ Len(heman_dir[name]) = 2
          /\ Len(files[HemanOut(name)].annotations) = 2

---------------------------------------------------------------------------
(* SALAMI: the annotation loop of create_JAMS, one create_annotations call  *)
(* at a time, for one track                                                 *)

dfE == <<Row(1, TxtAaVerse), Row(4, TxtBVerses), Row(6, TxtAaVerse), Row(6, TxtEnd)>>

\* what a textfile<n>.txt of the track may be
AnnFiles == {Absent, Unreadable}
            \cup {Readable(frame) : frame \in {dfA, dfB, dfC, dfD, dfE}}

\* the SONG_ID of the track
TrackId == song_id_of(1)

\* lines 232-235, one iteration: create_annotations for an existing file
CreateAnnotations ==
    /\ converter = "create_JAMS"
    /\ loop_id <= 3
    /\ isfile(TrackId, loop_id)
    /\ LET r == create_annotations([annotations |-> jam_annotations, fs |-> FS],
                                   ann_dirs[TrackId][loop_id], loop_id)
       IN  /\ jam_annotations' = r.annotations
           /\ SetFS(r.fs)
    /\ loop_id' = loop_id + 1
    /\ UNCHANGED <<common_vars, salami_vars, not_salami_ann>>

\* lines 232-235, one iteration: there is no such file
NoAnnotationFile ==
    /\ converter = "create_JAMS"
    /\ loop_id <= 3
    /\ ~isfile(TrackId, loop_id)
    /\ loop_id' = loop_id + 1
    /\ UNCHANGED <<common_vars, fs_vars, jam_annotations, salami_vars, not_salami_ann>>

\* create_JAMS after its sanity check: the directory of the track exists
InitAnnotations ==
    /\ converter = "create_JAMS"
    /\ \E textfiles \in [1..3 -> AnnFiles] : ann_dirs = (TrackId :> textfiles)
    /\ csv_rows = <<SONG_ID, TrackId>>
    /\ n_jobs = 1 /\ next_row = 1 /\ running = << >> /\ aborting = FALSE
    /\ outcome = << >>
    /\ loop_id = 1
    /\ jam_annotations = << >>
    /\ i = 1
    /\ status = "running"
    /\ dirs = {}
    /\ files = << >>
    /\ stdout = << >>
    /\ IdleCal /\ IdleMidi /\ IdleRwc /\ IdleSeg /\ IdleHeman

NextAnnotations == CreateAnnotations \/ NoAnnotationFile

SpecAnnotations == InitAnnotations /\ [][NextAnnotations]_vars

\* the level an annotation's namespace stands for
LevelOf(ns) ==
    CASE ns = "segment_salami_function" -> "function"
      [] ns = "segment_salami_upper" -> "upper"
      [] ns = "segment_salami_lower" -> "lower"

\* the segment boundaries of the level of annotation a, from the file it was
\* made of
Boundaries(a) == get_level_segments(ann_dirs[TrackId][a.annotator].rows, LevelOf(a.namespace))

\* the consecutive pairs (j, j + 1) of boundaries whose duration is positive
Kept(segs) == {j \in 1..(Len(segs) - 1) : segs[j + 1][1] - segs[j][1] > 0}
NthKept(segs, n) == CHOOSE j \in Kept(segs) : Cardinality({x \in Kept(segs) : x <= j}) = n

C15_OnlyNonEmptyAnnotations ==
    [][converter = "create_JAMS" =>
          /\ \A k \in DOMAIN jam_annotations' : Len(jam_annotations'[k].data) >= 1
          /\ (loop_id <= 3 /\ ann_dirs[TrackId][loop_id].state = "ioerror")
                => jam_annotations' = jam_annotations]_vars

\* the second file could not be read, and the first gave one annotation
\* although two of its levels have no observation
C15_Witness ==
    /\ converter = "create_JAMS"
    /\ loop_id = 3
    /\ ann_dirs[TrackId][1] = Readable(dfA)
    /\ ann_dirs[TrackId][2].state = "ioerror"
    /\ Len(jam_annotations) = 1
    /\ Printed([msg |-> "Annotation missing", arg |-> 2])

---------------------------------------------------------------------------
(* Properties of the CAL500 tags *)

\* the row of songNames.txt a saved CAL500 jam was made of
SongOf(cal_jam) == songs[CHOOSE k \in DOMAIN songs : songs[k].track = cal_jam.content_path]

\* C16: the tag annotation of every saved CAL500 track has exactly one
\* observation for each tag whose hard and soft annotations have a non-zero
\* product and none for the other tags; each observation has time 0, the
\* duration of the track, the tag's name as value and the product as
\* confidence, which is never 0
C16_Cal500TagProduct ==
    converter = "cal500" =>
        \A p \in DOMAIN files :
           LET song == SongOf(files[p])
               data == files[p].data
           IN  /\ \A j \in DOMAIN Vocab :
                     Cardinality({n \in DOMAIN data : data[n].value = Vocab[j]})
                        = IF song.hard[j] * song.soft[j] # 0 THEN 1 ELSE 0
               /\ \A n \in DOMAIN data :
                     /\ data[n].time = 0
                     /\ data[n].duration = song.dur
                     /\ data[n].confidence # 0
                     /\ \E j \in DOMAIN Vocab :
                           /\ data[n].value = Vocab[j]
                           /\ data[n].confidence = song.hard[j] * song.soft[j]

\* a saved track with a tag of product 2, a tag whose hard annotation is 0
\* and a tag whose soft annotation is 0, and a saved track without any tag
C16_Witness ==
    /\ converter = "cal500"
    /\ \E p \in DOMAIN files :
          /\ SongOf(files[p]).hard = <<1, 0, 1>>
          /\ SongOf(files[p]).soft = <<2, 3, 0>>
          /\ Len(files[p].data) = 1
          /\ files[p].data[1].confidence = 2
    /\ \E p \in DOMAIN files : Len(files[p].data) = 0

====
